---- MODULE Spec2Model ----
(***************************************************************************)
(* Model of the Smart Meter Texas -> YNAB exporter.                        *)
(*                                                                         *)
(*   lambda_function.py  process_data / lambda_handler, the pure-Python    *)
(*                       calculate_trailing_12_month_average, the YNAB     *)
(*                       update and the three healthcheck pings            *)
(*   main.py             main, the pandas calculate_trailing_12_month_...  *)
(*   settings.py         SMTConfig                                         *)
(*   models.py           BillingData                                       *)
(*                                                                         *)
(* Numbers.  actual_kwh values are whole kWh (integers); for such values   *)
(* Python's float additions are exact.  The results of "/ 12" and of the   *)
(* products with the kWh rate are exact rationals <<n, d>> in lowest terms *)
(* with d > 0, so 0.0 is <<0, 1>> and float equality is tuple equality.    *)
(***************************************************************************)
EXTENDS Integers, Sequences, FiniteSets, TLC

VARIABLES
    entry,            \* which script runs: "lambda_function" or "main"
    healthcheck_url,  \* config.healthcheck_url: "missing", "none" or "set"
    current_kwh_rate, \* config.kwh_rate, a rational
    pc,               \* position of the run inside process_data / main
    report_data,      \* report.data.billing_data as returned by the fetch
    average,          \* the local variable average (Unset before assignment)
    goal_targets,     \* goal_target of every PATCH request handed to the YNAB client
    category,         \* goal targets the budget category actually took
    pings,            \* healthcheck endpoints requested, in order
    calls,            \* the functions the orchestrator has called, in order
    log,              \* logger records, in order
    statusCode,       \* statusCode of the returned dict; 0 while nothing is returned
    exc               \* the exception being raised or last caught; "none" if none

vars == <<entry, healthcheck_url, current_kwh_rate, pc, report_data, average,
          goal_targets, category, pings, calls, log, statusCode, exc>>

----------------------------------------------------------------------------
(* Bounds of the model *)

\* number of calendar months the fetched reports are drawn from
MaxMonths == 14

----------------------------------------------------------------------------
(* Exact arithmetic standing for Python floats *)

Abs(x) == IF x < 0 THEN -x ELSE x

RECURSIVE GCD(_, _)
GCD(a, b) == IF b = 0 THEN a ELSE GCD(b, a % b)

\* the rational n/d in lowest terms with a positive denominator
Rat(n, d) ==
    LET s == IF d < 0 THEN -1 ELSE 1
        g == GCD(Abs(n), Abs(d))
    IN  <<(s * n) \div g, (s * d) \div g>>

FromInt(k) == <<k, 1>>

\* a * b, cancelling across before multiplying
RatMul(a, b) ==
    LET g1 == GCD(Abs(a[1]), b[2])
        g2 == GCD(Abs(b[1]), a[2])
    IN  <<(a[1] \div g1) * (b[1] \div g2), (a[2] \div g2) * (b[2] \div g1)>>

RatDivInt(a, k) == Rat(a[1], a[2] * k)

\* the literal 0.0
ZeroFloat == <<0, 1>>

\* a local variable that has not been assigned yet
Unset == <<>>

----------------------------------------------------------------------------
(* lambda_function.py: calculate_trailing_12_month_average *)

\* the window of rolling(window=12) and of "len(window_data) >= 12", "/ 12"
Window == 12

\* the look-back of "start_idx = max(0, i - 11)"
LookBack == 11

Max(a, b) == IF a > b THEN a ELSE b

\* strftime("%Y-%m") keeps only year and month of the date, dropping the day
MonthKey(start_date) == <<start_date[1], start_date[2]>>

\* order of the "%Y-%m" strings (four-digit years): by year, then by month
KeyLess(a, b) == a[1] < b[1] \/ (a[1] = b[1] /\ a[2] < b[2])

\* one step of the grouping loop: monthly_usage[month_key] += bd.actual_kwh
\* on a defaultdict(float)
Accumulate_overwrite(mu, bd) ==
    LET month_key == MonthKey(bd.start_date)
    IN  IF month_key \in DOMAIN mu
        THEN [mu EXCEPT ![month_key] = bd.actual_kwh]
        ELSE mu @@ (month_key :> bd.actual_kwh)
\* the variant that treats a record of zero usage as no record
Accumulate_skip_zero(mu, bd) ==
    LET month_key == MonthKey(bd.start_date)
    IN  IF bd.actual_kwh = 0 THEN mu
        ELSE IF month_key \in DOMAIN mu
        THEN [mu EXCEPT ![month_key] = @ + bd.actual_kwh]
        ELSE mu @@ (month_key :> (0 + bd.actual_kwh))
Accumulate(mu, bd) ==
    LET month_key == MonthKey(bd.start_date)
    IN  IF month_key \in DOMAIN mu
        THEN [mu EXCEPT ![month_key] = @ + bd.actual_kwh]
        ELSE mu @@ (month_key :> (0 + bd.actual_kwh))

\* the grouping loop over billing_data, in input order
RECURSIVE GroupByMonth(_, _)
GroupByMonth(billing_data, mu) ==
    IF billing_data = <<>> THEN mu
    ELSE GroupByMonth(Tail(billing_data), Accumulate(mu, Head(billing_data)))

EmptyDict == [k \in {} |-> 0]

monthly_usage(billing_data) == GroupByMonth(billing_data, EmptyDict)

\* sorted(monthly_usage.items()): the (month, kwh) pairs in ascending key order
RECURSIVE SortItems(_, _)
SortItems(mu, keys) ==
    IF keys = {} THEN <<>>
    ELSE LET first == CHOOSE k \in keys : \A o \in keys : o = k \/ KeyLess(k, o)
         IN  <<<<first, mu[first]>>>> \o SortItems(mu, keys \ {first})

\* the variant that fills every calendar month between the first and the
\* last key, the absent ones with 0.0
sorted_months_zero_filled(mu) ==
    IF DOMAIN mu = {} THEN <<>>
    ELSE LET ix(k) == k[1] * 12 + (k[2] - 1)
             lo == CHOOSE a \in {ix(k) : k \in DOMAIN mu} :
                       \A k \in DOMAIN mu : a <= ix(k)
             hi == CHOOSE a \in {ix(k) : k \in DOMAIN mu} :
                       \A k \in DOMAIN mu : a >= ix(k)
         IN  [p \in 1 .. (hi - lo + 1) |->
                LET k == <<(lo + p - 1) \div 12, ((lo + p - 1) % 12) + 1>>
                IN  <<k, IF k \in DOMAIN mu THEN mu[k] ELSE 0>>]
sorted_months(mu) == SortItems(mu, DOMAIN mu)

\* window_data = sorted_months[start_idx:i + 1], i counted from 0
window_data_wide(sorted, i) ==
    LET start_idx == Max(0, i - (LookBack + 1))
    IN  SubSeq(sorted, start_idx + 1, i + 1)
window_data(sorted, i) ==
    LET start_idx == Max(0, i - LookBack)
    IN  SubSeq(sorted, start_idx + 1, i + 1)

RECURSIVE SumKwh(_)
SumKwh(items) == IF items = <<>> THEN 0 ELSE Head(items)[2] + SumKwh(Tail(items))

\* avg_kwh = sum(kwh for _, kwh in window_data) / 12
avg_kwh(window) == RatDivInt(FromInt(SumKwh(window)), Window)

\* the positions of the loop that record an average
RecordedPositions_strict(sorted) ==
    {i \in 0 .. Len(sorted) - 1 : Len(window_data(sorted, i)) > Window}
RecordedPositions_eleven(sorted) ==
    {i \in 0 .. Len(sorted) - 1 : Len(window_data(sorted, i)) >= Window - 1}
RecordedPositions(sorted) ==
    {i \in 0 .. Len(sorted) - 1 : Len(window_data(sorted, i)) >= Window}

\* the dict trailing_averages after the loop
trailing_averages(sorted) ==
    [month \in {sorted[i + 1][1] : i \in RecordedPositions(sorted)} |->
        LET i == CHOOSE j \in RecordedPositions(sorted) : sorted[j + 1][1] = month
        IN  avg_kwh(window_data(sorted, i))]

\* latest_month = sorted_months[-1][0]
latest_month_first(sorted) == sorted[1][1]
latest_month(sorted) == sorted[Len(sorted)][1]

\* the variant that takes the month of the last input record as the latest
calculate_latest_by_input(billing_data) ==
    IF billing_data = <<>> THEN ZeroFloat
    ELSE LET sorted == sorted_months(monthly_usage(billing_data))
             ta == trailing_averages(sorted)
             last == MonthKey(billing_data[Len(billing_data)].start_date)
         IN  IF last \in DOMAIN ta THEN ta[last] ELSE ZeroFloat
calculate_trailing_12_month_average(billing_data) ==
    IF billing_data = <<>> THEN ZeroFloat
    ELSE LET sorted == sorted_months(monthly_usage(billing_data))
             ta == trailing_averages(sorted)
         IN  IF sorted = <<>> THEN ZeroFloat
             ELSE IF DOMAIN ta = {} THEN ZeroFloat
             ELSE IF latest_month(sorted) \in DOMAIN ta
                  THEN ta[latest_month(sorted)]
                  ELSE ZeroFloat

----------------------------------------------------------------------------
(* main.py: calculate_trailing_12_month_average, the pandas variant *)

\* the float NaN that rolling(...).mean() yields for an incomplete window
NaN == <<0, 0>>

\* df["Start date"].dt.to_period("M")
to_period(start_date) == <<start_date[1], start_date[2]>>

\* chronological order of monthly periods
PeriodLess(a, b) == a[1] * 12 + a[2] < b[1] * 12 + b[2]

RECURSIVE SumRows(_, _)
SumRows(df, rows) ==
    IF rows = {} THEN 0
    ELSE LET r == CHOOSE x \in rows : TRUE
         IN  df[r].actual_kwh + SumRows(df, rows \ {r})

\* df.groupby(period)["Actual kWh"].sum(): one total per period
groupby_sum(df) ==
    [p \in {to_period(df[r].start_date) : r \in DOMAIN df} |->
        SumRows(df, {r \in DOMAIN df : to_period(df[r].start_date) = p})]

\* the index of the grouped frame: the periods in ascending order
RECURSIVE SortPeriods(_)
SortPeriods(periods) ==
    IF periods = {} THEN <<>>
    ELSE LET first == CHOOSE p \in periods :
                          \A o \in periods : o = p \/ PeriodLess(p, o)
         IN  <<first>> \o SortPeriods(periods \ {first})

RECURSIVE SumTotals(_, _, _, _)
SumTotals(totals, index, from, to) ==
    IF from > to THEN 0
    ELSE totals[index[from]] + SumTotals(totals, index, from + 1, to)

\* monthly_usage["Total kWh"].rolling(window=12).mean() at row i (from 1):
\* NaN until 12 observations are in the window
rolling_mean_partial(totals, index, i) ==
    LET from == Max(1, i - Window + 1)
    IN  RatDivInt(FromInt(SumTotals(totals, index, from, i)), i - from + 1)
rolling_mean(totals, index, i) ==
    IF i < Window THEN NaN
    ELSE RatDivInt(FromInt(SumTotals(totals, index, i - Window + 1, i)), Window)

\* pd.isna
isna(x) == x[2] = 0

main_calculate_trailing_12_month_average(billing_data) ==
    IF billing_data = <<>> THEN ZeroFloat
    ELSE LET totals == groupby_sum(billing_data)
             index == SortPeriods(DOMAIN totals)
             latest_month_ix == CHOOSE i \in 1 .. Len(index) :
                                    \A j \in 1 .. Len(index) :
                                        j = i \/ PeriodLess(index[j], index[i])
             latest_avg == rolling_mean(totals, index, latest_month_ix)
         IN  IF isna(latest_avg) THEN ZeroFloat ELSE latest_avg

----------------------------------------------------------------------------
(* update_electric_bill_target: the numeric part *)

\* int(x): truncation toward zero
int_floor(x) == x[1] \div x[2]
int(x) == IF x[1] >= 0 THEN x[1] \div x[2] ELSE -((-x[1]) \div x[2])

\* target = trailing_avg_kwh * current_kwh_rate
target(trailing_avg_kwh, rate) == RatMul(trailing_avg_kwh, rate)

\* goal_target = int(target * 1000)
goal_target(trailing_avg_kwh, rate) ==
    int(RatMul(target(trailing_avg_kwh, rate), FromInt(1000)))

----------------------------------------------------------------------------
(* The reports the Smart Meter Texas API can return *)

\* the j-th calendar month of a series that starts in November 2023 and
\* advances stride months per step
CalendarMonth(j, stride) ==
    LET t == 2023 * 12 + 10 + j * stride
    IN  <<t \div 12, (t % 12) + 1>>

BillingData(j, stride, day, kwh) ==
    LET ym == CalendarMonth(j, stride)
    IN  [start_date |-> <<ym[1], ym[2], day>>, actual_kwh |-> kwh]

\* consecutive series (stride 1) and series with calendar gaps (stride 5)
Strides == {1, 5}

\* usage of a month that deviates from the ramp: none, or a credit
ProbeKwh == {0, -20000}

\* one record per month from calendar month first on, usage rising by 10 kWh
\* per month from 1000 kWh, as test_calculate_trailing_12_month_average builds
Ramp(first, stride) ==
    [k \in 1 .. (MaxMonths - first) |->
        BillingData(first + k - 1, stride, 1, 1000 + 10 * (k - 1))]

\* two records of 500 kWh in every month, as test_multiple_entries_per_month
Pairs(first, stride) ==
    [k \in 1 .. 2 * (MaxMonths - first) |->
        BillingData(first + ((k - 1) \div 2), stride, 1, 500)]

RemoveAt(s, k) == SubSeq(s, 1, k - 1) \o SubSeq(s, k + 1, Len(s))

InsertAfter(s, k, r) == SubSeq(s, 1, k) \o <<r>> \o SubSeq(s, k + 1, Len(s))

Reverse(s) == [k \in 1 .. Len(s) |-> s[Len(s) + 1 - k]]

ChronologicalReports ==
    UNION {
        LET ramp == Ramp(first, stride)
        IN  {ramp, Pairs(first, stride)}
            \cup {RemoveAt(ramp, g) : g \in DOMAIN ramp}
            \cup {[ramp EXCEPT ![k].actual_kwh = v] :
                    k \in DOMAIN ramp, v \in ProbeKwh}
            \cup {InsertAfter(ramp, k,
                              [start_date |-> <<ramp[k].start_date[1],
                                                ramp[k].start_date[2], 15>>,
                               actual_kwh |-> 500]) : k \in DOMAIN ramp}
        : first \in 0 .. MaxMonths, stride \in Strides }

\* the API's order is not relied on: oldest first and newest first
Reports == ChronologicalReports \cup {Reverse(r) : r \in ChronologicalReports}

\* config.kwh_rate
Rates == {Rat(17754, 100000), Rat(12, 100)}

----------------------------------------------------------------------------
(* The run: process_data (lambda_function.py) and main (main.py) *)

Entries == {"lambda_function", "main"}

\* SMTConfig as settings.py declares it has no healthcheck_url field, so
\* reading config.healthcheck_url raises AttributeError ("missing"); "none"
\* and "set" are a configuration object that carries the optional URL
\* (test_lambda_local.py documents HEALTHCHECK_URL as optional)
HealthcheckUrls == {"missing", "none", "set"}

\* a ping request answers 200, answers another status, or raises
PingOutcomes == {"200", "status", "exception"}

Info(msg) == [level |-> "INFO", msg |-> msg]

Error(msg) == [level |-> "ERROR", msg |-> msg]

\* what a ping function logs for an outcome of its request
PingLog(name, outcome) ==
    IF outcome = "200" THEN Info(name \o " successful.")
    ELSE IF outcome = "status" THEN Error(name \o " failed with status code")
    ELSE Error(name \o " failed: exception")

Init ==
    /\ entry \in Entries
    /\ healthcheck_url \in HealthcheckUrls
    /\ entry = "main" => healthcheck_url = "missing"
    /\ current_kwh_rate \in Rates
    /\ pc = IF entry = "lambda_function" THEN "ping_healthcheck_start"
            ELSE "get_monthly_report"
    /\ report_data = <<>>
    /\ average = Unset
    /\ goal_targets = <<>>
    /\ category = <<>>
    /\ pings = <<>>
    /\ calls = <<>>
    /\ log = <<>>
    /\ statusCode = 0
    /\ exc = "none"

\* await ping_healthcheck_start(), the first statement of process_data's try
PingHealthcheckStart ==
    /\ pc = "ping_healthcheck_start"
    /\ calls' = Append(calls, "ping_healthcheck_start")
    /\ \/ /\ healthcheck_url = "missing"
          /\ exc' = "AttributeError"
          /\ pc' = "except"
          /\ UNCHANGED <<pings, log>>
       \/ /\ healthcheck_url = "none"
          /\ pc' = "get_monthly_report"
          /\ UNCHANGED <<pings, log, exc>>
       \/ /\ healthcheck_url = "set"
          /\ \E outcome \in PingOutcomes :
                log' = Append(log, PingLog("Healthcheck start ping", outcome))
          /\ pings' = Append(pings, "/start")
          /\ pc' = "get_monthly_report"
          /\ UNCHANGED exc
    /\ UNCHANGED <<entry, healthcheck_url, current_kwh_rate, report_data,
                   average, goal_targets, category, statusCode>>

\* report_data = await get_monthly_report(): the validated report, or an
\* exception (no SSL context, no meters, network error, validation error)
GetMonthlyReport_swallow ==
    /\ pc = "get_monthly_report"
    /\ calls' = Append(calls, "get_monthly_report")
    /\ \/ /\ \E r \in Reports : report_data' = r
          /\ log' = Append(log, Info("Download completed."))
          /\ pc' = "calculate"
          /\ UNCHANGED exc
       \/ /\ exc' = "FetchError"
          /\ pc' = "calculate"
          /\ UNCHANGED <<report_data, log>>
    /\ UNCHANGED <<entry, healthcheck_url, current_kwh_rate, average,
                   goal_targets, category, pings, statusCode>>
GetMonthlyReport ==
    /\ pc = "get_monthly_report"
    /\ calls' = Append(calls, "get_monthly_report")
    /\ \/ /\ \E r \in Reports : report_data' = r
          /\ log' = Append(log, Info("Download completed."))
          /\ pc' = "calculate"
          /\ UNCHANGED exc
       \/ /\ exc' = "FetchError"
          /\ pc' = "except"
          /\ UNCHANGED <<report_data, log>>
    /\ UNCHANGED <<entry, healthcheck_url, current_kwh_rate, average,
                   goal_targets, category, pings, statusCode>>

\* average = calculate_trailing_12_month_average(report_data)
Calculate ==
    /\ pc = "calculate"
    /\ calls' = Append(calls, "calculate_trailing_12_month_average")
    /\ \/ /\ entry = "lambda_function"
          /\ average' = calculate_trailing_12_month_average(report_data)
          /\ log' = Append(log, Info("Calculated trailing 12-month average"))
       \/ /\ entry = "main"
          /\ average' = main_calculate_trailing_12_month_average(report_data)
          /\ UNCHANGED log
    /\ pc' = "update"
    /\ UNCHANGED <<entry, healthcheck_url, current_kwh_rate, report_data,
                   goal_targets, category, pings, statusCode, exc>>

\* the variant that leaves the category alone on the 0.0 sentinel
UpdateElectricBillTarget_skip_zero ==
    /\ pc = "update"
    /\ calls' = Append(calls, "update_electric_bill_target")
    /\ \/ /\ average = ZeroFloat
          /\ UNCHANGED <<goal_targets, category, log>>
       \/ /\ average # ZeroFloat
          /\ goal_targets' = Append(goal_targets,
                                    goal_target(average, current_kwh_rate))
          /\ \/ /\ category' = Append(category,
                                      goal_target(average, current_kwh_rate))
                /\ log' = log \o <<Info("Setting target"),
                                   Info("Category update response"),
                                   Info("YNAB electric bill target updated.")>>
             \/ /\ UNCHANGED category
                /\ log' = log \o <<Info("Setting target"),
                                   Error("Failed to update YNAB category"),
                                   Info("YNAB electric bill target updated.")>>
    /\ pc' = IF entry = "lambda_function" THEN "ping_healthcheck" ELSE "done"
    /\ UNCHANGED <<entry, healthcheck_url, current_kwh_rate, report_data,
                   average, pings, statusCode, exc>>

\* update_electric_bill_target(average): the PATCH succeeds, or the YNAB
\* client raises and the function logs it and returns normally
UpdateElectricBillTarget ==
    /\ pc = "update"
    /\ calls' = Append(calls, "update_electric_bill_target")
    /\ goal_targets' = Append(goal_targets, goal_target(average, current_kwh_rate))
    /\ \/ /\ category' = Append(category, goal_target(average, current_kwh_rate))
          /\ log' = log \o <<Info("Setting target"),
                             Info("Category update response"),
                             Info("YNAB electric bill target updated.")>>
       \/ /\ UNCHANGED category
          /\ log' = log \o <<Info("Setting target"),
                             Error("Failed to update YNAB category"),
                             Info("YNAB electric bill target updated.")>>
    /\ pc' = IF entry = "lambda_function" THEN "ping_healthcheck" ELSE "done"
    /\ UNCHANGED <<entry, healthcheck_url, current_kwh_rate, report_data,
                   average, pings, statusCode, exc>>

\* await ping_healthcheck() and the return of the statusCode 200 dict
PingHealthcheck ==
    /\ pc = "ping_healthcheck"
    /\ calls' = Append(calls, "ping_healthcheck")
    /\ \/ /\ healthcheck_url = "missing"
          /\ exc' = "AttributeError"
          /\ pc' = "except"
          /\ UNCHANGED <<pings, log, statusCode>>
       \/ /\ healthcheck_url = "none"
          /\ statusCode' = 200
          /\ pc' = "returned"
          /\ UNCHANGED <<pings, log, exc>>
       \/ /\ healthcheck_url = "set"
          /\ \E outcome \in PingOutcomes :
                log' = Append(log, PingLog("Healthcheck ping", outcome))
          /\ pings' = Append(pings, "/")
          /\ statusCode' = 200
          /\ pc' = "returned"
          /\ UNCHANGED exc
    /\ UNCHANGED <<entry, healthcheck_url, current_kwh_rate, report_data,
                   average, goal_targets, category>>

\* the variant whose except branch returns 500 without the /fail ping
ExceptProcessData_silent ==
    /\ pc = "except"
    /\ entry = "lambda_function"
    /\ log' = Append(log, Error("Error: " \o exc))
    /\ statusCode' = 500
    /\ pc' = "returned"
    /\ UNCHANGED <<entry, healthcheck_url, current_kwh_rate, report_data,
                   average, goal_targets, category, pings, calls, exc>>

\* process_data's except Exception: log, await ping_healthcheck_failed(),
\* return the statusCode 500 dict.  The attribute read in
\* ping_healthcheck_failed is outside its try, so AttributeError leaves
\* process_data and lambda_handler
ExceptProcessData ==
    /\ pc = "except"
    /\ entry = "lambda_function"
    /\ calls' = Append(calls, "ping_healthcheck_failed")
    /\ \/ /\ healthcheck_url = "missing"
          /\ log' = Append(log, Error("Error: " \o exc))
          /\ exc' = "AttributeError"
          /\ pc' = "raised"
          /\ UNCHANGED <<pings, statusCode>>
       \/ /\ healthcheck_url = "none"
          /\ log' = Append(log, Error("Error: " \o exc))
          /\ statusCode' = 500
          /\ pc' = "returned"
          /\ UNCHANGED <<pings, exc>>
       \/ /\ healthcheck_url = "set"
          /\ \E outcome \in PingOutcomes :
                log' = log \o <<Error("Error: " \o exc),
                                PingLog("Healthcheck failure ping", outcome)>>
          /\ pings' = Append(pings, "/fail")
          /\ statusCode' = 500
          /\ pc' = "returned"
          /\ UNCHANGED exc
    /\ UNCHANGED <<entry, healthcheck_url, current_kwh_rate, report_data,
                   average, goal_targets, category>>

\* main's except Exception: log the error and finish
ExceptMain ==
    /\ pc = "except"
    /\ entry = "main"
    /\ log' = Append(log, Error("Error: " \o exc))
    /\ pc' = "done"
    /\ UNCHANGED <<entry, healthcheck_url, current_kwh_rate, report_data,
                   average, goal_targets, category, pings, calls, statusCode, exc>>

Next ==
    \/ PingHealthcheckStart
    \/ GetMonthlyReport
    \/ Calculate
    \/ UpdateElectricBillTarget
    \/ PingHealthcheck
    \/ ExceptProcessData
    \/ ExceptMain

Spec == Init /\ [][Next]_vars

\* The calculation on its own: the run at the moment the fetch has returned
\* a report (process_data with no healthcheck URL to ping, or main), for
\* every report, followed by the call of the calculation
InitEngine ==
    /\ entry \in Entries
    /\ healthcheck_url = IF entry = "lambda_function" THEN "none" ELSE "missing"
    /\ current_kwh_rate = Rat(17754, 100000)
    /\ pc = "calculate"
    /\ report_data \in Reports
    /\ average = Unset
    /\ goal_targets = <<>>
    /\ category = <<>>
    /\ pings = <<>>
    /\ calls = IF entry = "lambda_function"
               THEN <<"ping_healthcheck_start", "get_monthly_report">>
               ELSE <<"get_monthly_report">>
    /\ log = <<Info("Download completed.")>>
    /\ statusCode = 0
    /\ exc = "none"

NextEngine == Calculate

SpecEngine == InitEngine /\ [][NextEngine]_vars

----------------------------------------------------------------------------
(* Vocabulary of the properties, stated on the records themselves *)

\* the distinct (year, month) keys of a collection of billing records
DistinctMonths(records) ==
    {<<records[r].start_date[1], records[r].start_date[2]>> : r \in DOMAIN records}

\* months since year 0: the chronological position of a (year, month)
Chron(ym) == ym[1] * 12 + ym[2]

RECURSIVE SumOver(_, _)
SumOver(f, S) ==
    IF S = {} THEN 0
    ELSE LET x == CHOOSE y \in S : TRUE IN f[x] + SumOver(f, S \ {x})

\* total usage of all records whose start_date falls in the month ym
MonthTotal(records, ym) ==
    SumOver([r \in DOMAIN records |-> records[r].actual_kwh],
            {r \in DOMAIN records :
                <<records[r].start_date[1], records[r].start_date[2]>> = ym})

\* the months of the input with fewer than 12 later months in the input
Latest12(records) ==
    {m \in DistinctMonths(records) :
        Cardinality({o \in DistinctMonths(records) : Chron(o) > Chron(m)}) < 12}

\* total usage of the 12 chronologically latest months
Latest12Total(records) ==
    SumOver([m \in Latest12(records) |-> MonthTotal(records, m)], Latest12(records))

\* process_data has just returned from calculate_trailing_12_month_average
LambdaComputed == entry = "lambda_function" /\ pc = "update"

\* the run has assigned its average
Computed == average # Unset

Called(name) == \E k \in DOMAIN calls : calls[k] = name

Pos(name) == CHOOSE k \in DOMAIN calls : calls[k] = name

Logged(rec) == \E k \in DOMAIN log : log[k] = rec

Pinged(endpoint) == \E k \in DOMAIN pings : pings[k] = endpoint

----------------------------------------------------------------------------
(* Properties *)

\* C1: with at least 12 distinct (year, month) keys in the input,
\* calculate_trailing_12_month_average returns the sum of the monthly totals
\* of the 12 chronologically latest months divided by 12; with exactly 12
\* months of one record each that is (u_1 + ... + u_12) / 12.
C1_TrailingAverageOfLatest12 ==
    (LambdaComputed /\ Cardinality(DistinctMonths(report_data)) >= 12)
    => /\ average[2] > 0
       /\ average[1] * 12 = Latest12Total(report_data) * average[2]
       /\ (Len(report_data) = 12) =>
            average[1] * 12 =
                SumOver([r \in DOMAIN report_data |-> report_data[r].actual_kwh],
                        DOMAIN report_data) * average[2]

\* 13 months with usage 1000, 1010, ..., 1120: the average is 1065
C1_Witness ==
    /\ LambdaComputed
    /\ Cardinality(DistinctMonths(report_data)) = 13
    /\ Len(report_data) = 13
    /\ average = <<1065, 1>>

\* C2: with fewer than 12 distinct (year, month) keys, the empty collection
\* included, calculate_trailing_12_month_average returns exactly 0.0 and
\* raises nothing, whatever the usage values and the number of records.
C2_FewerThan12MonthsIsZero ==
    (LambdaComputed /\ Cardinality(DistinctMonths(report_data)) < 12)
    => /\ average = <<0, 1>>
       /\ exc = "none"

\* 12 records in 11 distinct months, none of them with zero usage
C2_Witness ==
    /\ LambdaComputed
    /\ Cardinality(DistinctMonths(report_data)) = 11
    /\ Len(report_data) = 12
    /\ \A r \in DOMAIN report_data : report_data[r].actual_kwh > 0
    /\ average = <<0, 1>>

\* C3: the monthly aggregation has exactly one total per distinct
\* (year, month) of the input, equal to the sum of actual_kwh of all records
\* of that month, and these sums enter the window: 12 months of two 500 kWh
\* records each give a trailing average of 1000.
C3_MonthlyTotalsAreSums ==
    LambdaComputed
    => LET mu == monthly_usage(report_data)
           sorted == sorted_months(mu)
       IN  /\ DOMAIN mu = DistinctMonths(report_data)
           /\ \A m \in DOMAIN mu : mu[m] = MonthTotal(report_data, m)
           /\ Len(sorted) = Cardinality(DistinctMonths(report_data))
           /\ \A k \in DOMAIN sorted :
                sorted[k][2] = MonthTotal(report_data, sorted[k][1])
           /\ (/\ Cardinality(DistinctMonths(report_data)) = 12
               /\ \A m \in DistinctMonths(report_data) :
                    /\ Cardinality({r \in DOMAIN report_data :
                          MonthKey(report_data[r].start_date) = m}) = 2
                    /\ MonthTotal(report_data, m) = 1000)
              => average = <<1000, 1>>

\* 12 months with two records of 500 kWh each
C3_Witness ==
    /\ LambdaComputed
    /\ Len(report_data) = 24
    /\ Cardinality(DistinctMonths(report_data)) = 12
    /\ \A r \in DOMAIN report_data : report_data[r].actual_kwh = 500
    /\ average = <<1000, 1>>

\* the (year, month) at chronological position c
FromChron(c) == <<(c - 1) \div 12, ((c - 1) % 12) + 1>>

\* chronological position of the oldest of the 12 latest months
Cutoff(records) ==
    CHOOSE c \in {Chron(m) : m \in Latest12(records)} :
        \A m \in Latest12(records) : c <= Chron(m)

\* months older than the 12th most recent one: those of the input, the month
\* just before the window, and a month years before it
OlderMonths(records) ==
    {m \in DistinctMonths(records) \cup {FromChron(Cutoff(records) - 1), <<2020, 6>>} :
        Chron(m) < Cutoff(records)}

\* C4: with at least 12 distinct months in the input, adding a record in any
\* month older than the 12th most recent month, or changing the usage of a
\* record of such a month, leaves the returned average unchanged.
C4_OlderMonthsDoNotMatter ==
    (LambdaComputed /\ Cardinality(DistinctMonths(report_data)) >= 12)
    => /\ \A m \in OlderMonths(report_data) : \A kwh \in {700, -20000} :
            LET bd == [start_date |-> <<m[1], m[2], 20>>, actual_kwh |-> kwh]
            IN  /\ calculate_trailing_12_month_average(Append(report_data, bd))
                       = average
                /\ calculate_trailing_12_month_average(<<bd>> \o report_data)
                       = average
       /\ \A r \in DOMAIN report_data :
            Chron(MonthKey(report_data[r].start_date)) < Cutoff(report_data)
            => \A kwh \in {0, 700} :
                 calculate_trailing_12_month_average(
                     [report_data EXCEPT ![r].actual_kwh = kwh]) = average

\* 14 months fetched, so two of them are older than the window, and a
\* non-zero average
C4_Witness ==
    /\ LambdaComputed
    /\ Cardinality(DistinctMonths(report_data)) = 14
    /\ Cardinality({m \in DistinctMonths(report_data) :
                        Chron(m) < Cutoff(report_data)}) = 2
    /\ average # <<0, 1>>

\* the sequence with the elements at i and j exchanged
Swap(s, i, j) == [s EXCEPT ![i] = s[j], ![j] = s[i]]

\* C5: any permutation of the same records yields the same result (checked
\* for every exchange of two records and for the reversed input), while
\* moving a record to another (year, month) key can change it.
C5_OrderIndependent ==
    LambdaComputed
    => /\ \A i \in DOMAIN report_data : \A j \in DOMAIN report_data :
            i < j => calculate_trailing_12_month_average(Swap(report_data, i, j))
                        = average
       /\ calculate_trailing_12_month_average(Reverse(report_data)) = average

\* a month with two records of different usage, newest record first, and a
\* record whose move into another month of the input changes the result
C5_Witness ==
    /\ LambdaComputed
    /\ average # <<0, 1>>
    /\ Len(report_data) > Cardinality(DistinctMonths(report_data))
    /\ Chron(MonthKey(report_data[1].start_date))
         > Chron(MonthKey(report_data[Len(report_data)].start_date))
    /\ \E r \in DOMAIN report_data : \E m \in DistinctMonths(report_data) :
          calculate_trailing_12_month_average(
              [report_data EXCEPT ![r].start_date = <<m[1], m[2], 1>>]) # average

\* C6: the pandas variant of main.py and the dictionary variant of
\* lambda_function.py return the same result for every input: empty, fewer
\* than 12 months, several records per month, calendar gaps.
C6_VariantsAgree ==
    /\ (entry = "lambda_function" /\ pc = "update")
        => average = main_calculate_trailing_12_month_average(report_data)
    /\ (entry = "main" /\ pc = "update")
        => average = calculate_trailing_12_month_average(report_data)

\* main.py computed a non-zero average from a series with calendar gaps and
\* two records in one month
C6_Witness ==
    /\ entry = "main"
    /\ pc = "update"
    /\ average # <<0, 1>>
    /\ Len(report_data) > Cardinality(DistinctMonths(report_data))
    /\ \E m \in DistinctMonths(report_data) :
          /\ Chron(m) > Cutoff(report_data)
          /\ FromChron(Chron(m) - 1) \notin DistinctMonths(report_data)

\* C7: goal_target is average x rate x 1000 truncated toward zero, for zero
\* and negative averages too; average 1065.0 at rate 0.17754 gives 189080.
\* With x = n / d, d > 0: g = int(x) iff g * d lies between 0 and n and
\* n is less than d away from it.
C7_GoalTargetTruncates ==
    goal_targets # <<>>
    => LET c == GCD(1000, current_kwh_rate[2])
           n == average[1] * current_kwh_rate[1] * (1000 \div c)
           d == average[2] * (current_kwh_rate[2] \div c)
           g == goal_targets[Len(goal_targets)]
       IN  /\ d > 0
           /\ n >= 0 => (g * d <= n /\ n < (g + 1) * d)
           /\ n < 0 => (n <= g * d /\ (g - 1) * d < n)
           /\ (average = <<1065, 1>> /\ current_kwh_rate = <<8877, 50000>>)
                => g = 189080
           /\ Len(goal_targets) = 1

\* the scenario of the specification: 1065.0 kWh at 0.17754 per kWh
C7_Witness ==
    /\ average = <<1065, 1>>
    /\ current_kwh_rate = <<8877, 50000>>
    /\ goal_targets = <<189080>>

\* a negative average whose product is not a whole number of milliunits:
\* the goal_target is negative and nearer to zero than the product
C7_WitnessNegative ==
    /\ goal_targets # <<>>
    /\ average[1] < 0
    /\ goal_targets[1] < 0
    /\ LET c == GCD(1000, current_kwh_rate[2])
       IN  goal_targets[1] * average[2] * (current_kwh_rate[2] \div c)
             > average[1] * current_kwh_rate[1] * (1000 \div c)

\* C8: the steps of a run happen in the order fetch, compute, update,
\* notify; the average is computed only from a report the fetch returned,
\* and update_electric_bill_target is called only after the fetch and the
\* computation completed: when get_monthly_report raises it is never called.
C8_UpdateOnlyAfterFetchAndCompute ==
    /\ Called("calculate_trailing_12_month_average")
        => /\ Called("get_monthly_report")
           /\ Pos("get_monthly_report") < Pos("calculate_trailing_12_month_average")
           /\ Logged(Info("Download completed."))
           /\ report_data \in Reports
    /\ pc = "update"
        => average = IF entry = "lambda_function"
                     THEN calculate_trailing_12_month_average(report_data)
                     ELSE main_calculate_trailing_12_month_average(report_data)
    /\ Called("update_electric_bill_target")
        => /\ Called("calculate_trailing_12_month_average")
           /\ Pos("calculate_trailing_12_month_average")
                < Pos("update_electric_bill_target")
           /\ Computed
           /\ goal_targets = <<goal_target(average, current_kwh_rate)>>
    /\ Called("ping_healthcheck")
        => /\ Called("update_electric_bill_target")
           /\ Pos("update_electric_bill_target") < Pos("ping_healthcheck")
    /\ (exc = "FetchError" \/ Logged(Error("Error: FetchError")))
        => /\ ~Called("calculate_trailing_12_month_average")
           /\ ~Called("update_electric_bill_target")
           /\ average = Unset
           /\ goal_targets = <<>>
           /\ category = <<>>

\* a complete run of process_data, every step in order
C8_Witness ==
    /\ pc = "returned"
    /\ statusCode = 200
    /\ calls = <<"ping_healthcheck_start", "get_monthly_report",
                 "calculate_trailing_12_month_average",
                 "update_electric_bill_target", "ping_healthcheck">>
    /\ category # <<>>

\* a run of process_data whose fetch raised: no update was made
C8_WitnessFetchRaised ==
    /\ entry = "lambda_function"
    /\ pc = "returned"
    /\ Logged(Error("Error: FetchError"))
    /\ goal_targets = <<>>

\* C9: in a run of process_data with a healthcheck URL, when the fetch or
\* the budget update fails, the /fail ping is sent and the success ping is
\* not.
C9_FailureIsReported ==
    (/\ entry = "lambda_function"
     /\ pc = "returned"
     /\ healthcheck_url = "set"
     /\ \/ Logged(Error("Error: FetchError"))
        \/ Logged(Error("Failed to update YNAB category")))
    => /\ Pinged("/fail")
       /\ ~Pinged("/")

\* C10: process_data never raises: whatever fails, and whether or not the
\* configuration object has a healthcheck URL, the run ends by returning a
\* dict with statusCode 200 or 500.
C10_RunNeverRaises ==
    entry = "lambda_function"
    => /\ pc # "raised"
       /\ pc = "returned" => statusCode \in {200, 500}

\* chronological rank, from 0, of the month ym among the months of the input
Rank(records, ym) ==
    Cardinality({o \in DistinctMonths(records) : Chron(o) < Chron(ym)})

\* the same records with the month of rank k moved to the calendar month
\* base + k * step (days kept): same chronological order, same totals
Rekey(records, base, step) ==
    [r \in DOMAIN records |->
        LET ym == FromChron(base + step * Rank(records, MonthKey(records[r].start_date)))
        IN  [records[r] EXCEPT !.start_date = <<ym[1], ym[2], records[r].start_date[3]>>]]

\* consecutive months from January 2000, every 7th month from March 1990,
\* every 13th month from December 2001
Rekeyings == {<<2000 * 12 + 1, 1>>, <<1990 * 12 + 3, 7>>, <<2001 * 12 + 12, 13>>}

\* C11: calendar gaps are not zero-filled; the window is the 12 most recent
\* months present: with at least 12 distinct months the result is unchanged
\* when the month keys are replaced by other keys in the same chronological
\* order with the same totals, consecutive or spread with gaps over years.
C11_GapsAreNotZeroFilled ==
    (LambdaComputed /\ Cardinality(DistinctMonths(report_data)) >= 12)
    => \A k \in Rekeyings :
          /\ calculate_trailing_12_month_average(Rekey(report_data, k[1], k[2]))
                = average
          /\ main_calculate_trailing_12_month_average(Rekey(report_data, k[1], k[2]))
                = average

\* a series with a calendar gap inside its 12 latest months and a non-zero
\* average, whose consecutive rekeying has other keys
C11_Witness ==
    /\ LambdaComputed
    /\ Cardinality(DistinctMonths(report_data)) >= 12
    /\ average # <<0, 1>>
    /\ \E m \in Latest12(report_data) :
          /\ Chron(m) > Cutoff(report_data)
          /\ FromChron(Chron(m) - 1) \notin DistinctMonths(report_data)
    /\ DistinctMonths(Rekey(report_data, 2000 * 12 + 1, 1))
         # DistinctMonths(report_data)

\* C12: the loop records a trailing average exactly for the sorted positions
\* i >= 11 and for no earlier one, each over exactly 12 entries; so with at
\* least 12 months the last month has a recorded average and the 0.0
\* fallback of the final lookup is not taken.
C12_RecordedFromTwelfthMonth ==
    LambdaComputed
    => LET sorted == sorted_months(monthly_usage(report_data))
           ta == trailing_averages(sorted)
       IN  /\ RecordedPositions(sorted) = {i \in 0 .. Len(sorted) - 1 : i >= 11}
           /\ DOMAIN ta = {sorted[p][1] : p \in {q \in DOMAIN sorted : q >= 12}}
           /\ \A i \in RecordedPositions(sorted) :
                /\ Len(window_data(sorted, i)) = 12
                /\ window_data(sorted, i) = [p \in 1 .. 12 |-> sorted[i - 11 + p]]
                /\ ta[sorted[i + 1][1]][2] > 0
                /\ ta[sorted[i + 1][1]][1] * 12
                     = SumOver([p \in 1 .. 12 |-> sorted[i - 11 + p][2]], 1 .. 12)
                         * ta[sorted[i + 1][1]][2]
           /\ Len(sorted) >= 12
                => /\ latest_month(sorted) \in DOMAIN ta
                   /\ average = ta[latest_month(sorted)]

\* 14 months: averages recorded for the 12th, 13th and 14th month only
C12_Witness ==
    /\ LambdaComputed
    /\ LET sorted == sorted_months(monthly_usage(report_data))
       IN  /\ Len(sorted) = 14
           /\ RecordedPositions(sorted) = {11, 12, 13}
           /\ Cardinality(DOMAIN trailing_averages(sorted)) = 3
    /\ average # <<0, 1>>

\* the months among the 12 latest whose total usage is zero
ZeroMonths(records) ==
    {m \in Latest12(records) : MonthTotal(records, m) = 0}

\* C13: a month whose total usage is zero is a data point: it counts toward
\* the 12-month threshold and fills one of the 12 window entries with 0, and
\* the divisor stays 12.
C13_ZeroMonthIsDataPoint ==
    (LambdaComputed /\ Cardinality(DistinctMonths(report_data)) >= 12
        /\ ZeroMonths(report_data) # {})
    => LET mu == monthly_usage(report_data)
           sorted == sorted_months(mu)
           others == Latest12(report_data) \ ZeroMonths(report_data)
       IN  /\ \A m \in ZeroMonths(report_data) :
                /\ m \in DOMAIN mu
                /\ mu[m] = 0
                /\ \E p \in DOMAIN sorted :
                      p > Len(sorted) - 12 /\ sorted[p] = <<m, 0>>
           /\ Len(sorted) = Cardinality(DistinctMonths(report_data))
           /\ average[2] > 0
           /\ average[1] * 12 =
                SumOver([m \in others |-> MonthTotal(report_data, m)], others)
                    * average[2]

\* exactly 12 months, one of them with zero usage: the average is not the
\* insufficient-history 0.0 but the other eleven totals over 12
C13_Witness ==
    /\ LambdaComputed
    /\ Cardinality(DistinctMonths(report_data)) = 12
    /\ Cardinality(ZeroMonths(report_data)) = 1
    /\ average # <<0, 1>>
    /\ average[1] * 12 = Latest12Total(report_data) * average[2]

\* C14: with a healthcheck URL configured, a run of process_data sends the
\* start ping before the fetch begins and then exactly one terminal ping,
\* after all other steps: the success ping iff the statusCode is 200, the
\* /fail ping iff it is 500; never both, never neither.
C14_OneTerminalPing ==
    (entry = "lambda_function" /\ healthcheck_url = "set")
    => /\ Called("get_monthly_report")
            => /\ pings # <<>>
               /\ pings[1] = "/start"
               /\ Pos("ping_healthcheck_start") < Pos("get_monthly_report")
       /\ \A k \in DOMAIN pings : k > 1 => pings[k] # "/start"
       /\ pc # "returned" => (Len(pings) <= 1 /\ statusCode = 0)
       /\ pc = "returned"
            => /\ Len(pings) = 2
               /\ pings[2] \in {"/", "/fail"}
               /\ statusCode \in {200, 500}
               /\ statusCode = 200 <=> pings[2] = "/"
               /\ statusCode = 500 <=> pings[2] = "/fail"
               /\ calls[Len(calls)] \in {"ping_healthcheck", "ping_healthcheck_failed"}
               /\ \A k \in 1 .. Len(calls) - 1 :
                     calls[k] \notin {"ping_healthcheck", "ping_healthcheck_failed"}

\* a run whose fetch raised: start ping, then the /fail ping alone, and 500
C14_Witness ==
    /\ entry = "lambda_function"
    /\ healthcheck_url = "set"
    /\ pc = "returned"
    /\ statusCode = 500
    /\ pings = <<"/start", "/fail">>
    /\ calls = <<"ping_healthcheck_start", "get_monthly_report",
                 "ping_healthcheck_failed">>

\* a complete run: start ping, then the success ping alone, and 200
C14_WitnessSuccess ==
    /\ healthcheck_url = "set"
    /\ pc = "returned"
    /\ statusCode = 200
    /\ pings = <<"/start", "/">>

\* C15: the 0.0 insufficient-history sentinel is not treated specially:
\* whenever the fetch succeeds, update_electric_bill_target is called with
\* the computed average, also when it is 0.0 because fewer than 12 months
\* were fetched; the category is then patched with goal_target 0 and the
\* run still returns statusCode 200.
C15_ZeroAverageStillUpdates ==
    (pc \in {"returned", "done"} /\ Logged(Info("Download completed.")))
    => /\ Called("update_electric_bill_target")
       /\ Computed
       /\ Len(goal_targets) = 1
       /\ Cardinality(DistinctMonths(report_data)) < 12
            => /\ average = <<0, 1>>
               /\ goal_targets = <<0>>
               /\ ~Logged(Error("Failed to update YNAB category"))
                    => category = <<0>>
       /\ entry = "lambda_function" => statusCode = 200

\* 11 months fetched: the category was patched with 0 and the run returned 200
C15_Witness ==
    /\ entry = "lambda_function"
    /\ pc = "returned"
    /\ Cardinality(DistinctMonths(report_data)) = 11
    /\ average = <<0, 1>>
    /\ goal_targets = <<0>>
    /\ category = <<0>>
    /\ statusCode = 200

====
